---- MODULE Spec2Model ----
(***************************************************************************)
(* Model of the AI agent workflow: AIAgentOrchestrator.process_request     *)
(* driving the LangGraph nodes parse_input, create_preview, show_preview,  *)
(* create_contact, create_deal, send_notification and handle_error, with   *)
(* the PreviewAgent, HubSpotAgent and EmailAgent they call.                *)
(*                                                                         *)
(* Encoding of Python values.                                              *)
(*   A Python string is a sequence of atoms.  The atoms " ", "\n", ":",    *)
(*   ",", "$" and the digits "0".."9" are single characters; every other   *)
(*   atom is a run of characters that holds none of those (a word, an      *)
(*   e-mail address, a key such as "first_name").  str.strip, str.split,   *)
(*   str.replace, str.startswith, str.lower and float() are computed on    *)
(*   this representation.                                                  *)
(*   A Python value is a tagged tuple: <<"None">>, <<"bool", b>>,          *)
(*   <<"str", s>>, <<"num", n>>, <<"dict", f>> (f a function from keys to  *)
(*   values), <<"PreviewItem", r>> or <<"WorkflowResult", r>>.  The dicts  *)
(*   with a fixed set of keys (WorkflowState, PreviewItem.data, the        *)
(*   dataclasses) are records; entities, whose keys come from the reply   *)
(*   of the language model, is a function from strings to values.         *)
(***************************************************************************)
EXTENDS Integers, Sequences, FiniteSets, TLC

VARIABLES
    pc,         \* position of the run: "idle", a graph node, a prompt, "END", "done"
    state,      \* the WorkflowState dict of the run
    heap,       \* dict objects allocated by the PreviewAgent (PreviewItem.data refers into it)
    edit_pos,   \* inside edit_preview: index of the next field prompt (0 when not editing)
    calls,      \* the calls made on the collaborators during the run, in order
    crm,        \* objects the HubSpot API created during the run
    result,     \* the WorkflowResult returned by process_request
    runs,       \* number of process_request invocations started
    path,       \* the graph nodes the run has executed, in order
    typed,      \* what the last input() of the run returned (None before the first)
    parked,     \* a second run on the same orchestrator that is not executing at the
                \* moment: its pc, state, edit_pos, calls, crm, result, path, typed (or None)
    shown,      \* what the last display_preview of the run printed: the type and the
                \* data of the PreviewItem as they were then (None before the first)
    reply       \* how the language-model call of the run ended: response.text, or the
                \* exception it raised (None before the call)

vars ==
    <<pc, state, heap, edit_pos, calls, crm, result, runs, path, typed, parked, shown, reply>>

----------------------------------------------------------------------------
(* Bounds *)

\* process_request invocations on the one orchestrator
MaxRuns == 2

----------------------------------------------------------------------------
(* Python strings *)

SP == " "
NL == "\n"

IsSpace(a) == a \in {SP, NL}

RECURSIVE LStrip(_)
LStrip(s) == IF s # <<>> /\ IsSpace(Head(s)) THEN LStrip(Tail(s)) ELSE s

RECURSIVE RStrip(_)
RStrip(s) ==
    IF s # <<>> /\ IsSpace(s[Len(s)]) THEN RStrip(SubSeq(s, 1, Len(s) - 1)) ELSE s

\* str.strip()
Strip(s) == RStrip(LStrip(s))

\* index of the first occurrence of atom c in s, 0 when there is none
RECURSIVE FindFrom(_, _, _)
FindFrom(s, c, i) ==
    IF i > Len(s) THEN 0 ELSE IF s[i] = c THEN i ELSE FindFrom(s, c, i + 1)

Find(s, c) == FindFrom(s, c, 1)

\* c in s
Has(s, c) == Find(s, c) # 0

\* str.split(c): every piece between occurrences of c
RECURSIVE Split(_, _)
Split(s, c) ==
    IF ~Has(s, c) THEN <<s>>
    ELSE <<SubSeq(s, 1, Find(s, c) - 1)>> \o Split(SubSeq(s, Find(s, c) + 1, Len(s)), c)

\* str.split(c, 1) of a string that holds c: two pieces
Split1(s, c) ==
    IF ~Has(s, c) THEN <<s>>
    ELSE <<SubSeq(s, 1, Find(s, c) - 1), SubSeq(s, Find(s, c) + 1, Len(s))>>

\* str.replace(c, "")
Remove(s, c) == SelectSeq(s, LAMBDA a : a # c)

\* str.startswith(p)
StartsWith(s, p) == Len(s) >= Len(p) /\ SubSeq(s, 1, Len(p)) = p

\* p in s (substring)
Contains(s, p) == \E i \in 0..(Len(s) - Len(p)) : SubSeq(s, i + 1, i + Len(p)) = p

LowerAtom(a) ==
    CASE a = "Y" -> "y"
      [] a = "N" -> "n"
      [] a = "E" -> "e"
      [] OTHER -> a

\* str.lower()
Lower(s) == [i \in 1..Len(s) |-> LowerAtom(s[i])]

Digits == {"0", "1", "2", "3", "4", "5", "6", "7", "8", "9"}

DigitVal(a) ==
    CASE a = "0" -> 0 [] a = "1" -> 1 [] a = "2" -> 2 [] a = "3" -> 3 [] a = "4" -> 4
      [] a = "5" -> 5 [] a = "6" -> 6 [] a = "7" -> 7 [] a = "8" -> 8 [] a = "9" -> 9

RECURSIVE Decimal(_)
Decimal(s) == IF s = <<>> THEN 0 ELSE Decimal(SubSeq(s, 1, Len(s) - 1)) * 10 + DigitVal(s[Len(s)])

----------------------------------------------------------------------------
(* Python values *)

None == <<"None">>
Bool(b) == <<"bool", b>>
Str(s) == <<"str", s>>
Num(n) == <<"num", n>>
Dict(f) == <<"dict", f>>
EmptyDict == [k \in {} |-> None]

IsNone(v) == v[1] = "None"
IsStr(v) == v[1] = "str"

\* bool(v)
Truthy(v) ==
    CASE v[1] = "None" -> FALSE
      [] v[1] = "bool" -> v[2]
      [] v[1] = "str" -> v[2] # <<>>
      [] v[1] = "num" -> v[2] # 0
      [] v[1] = "dict" -> DOMAIN v[2] # {}
      [] OTHER -> TRUE

\* a or b
Or(a, b) == IF Truthy(a) THEN a ELSE b

\* d.get(k, default)
Get(d, k, default) == IF k \in DOMAIN d THEN d[k] ELSE default

\* d[k] = v
Put(d, k, v) == [x \in (DOMAIN d) \cup {k} |-> IF x = k THEN v ELSE d[x]]

\* str(v) as used in an f-string
Fmt(v) ==
    CASE v[1] = "None" -> <<"None">>
      [] v[1] = "str" -> v[2]
      [] v[1] = "num" -> <<ToString(v[2]), ".", "0">>
      [] v[1] = "bool" -> IF v[2] THEN <<"True">> ELSE <<"False">>
      [] OTHER -> <<"{}">>

\* float(s) of a string: the value, or the ValueError it raises
ValueError == <<"ValueError">>
Float(s) ==
    IF Strip(s) # <<>> /\ \A i \in 1..Len(Strip(s)) : Strip(s)[i] \in Digits
    THEN Num(Decimal(Strip(s)))
    ELSE ValueError

----------------------------------------------------------------------------
(* PreviewAgent (src/agents/preview_agent.py) *)

\* a one-atom string literal
W(a) == Str(<<a>>)
Empty == Str(<<>>)

\* @dataclass PreviewItem; data is a reference to a dict of the heap
PreviewItem(type, data, original_input) ==
    <<"PreviewItem", [type |-> type, data |-> data, original_input |-> original_input]>>

\* the name with the last name first
FullName_LastFirst(entities) ==
    Fmt(Get(entities, <<"last_name">>, Empty)) \o <<SP>>
        \o Fmt(Get(entities, <<"first_name">>, Empty))
\* f"{entities.get('first_name', '')} {entities.get('last_name', '')}"
FullName(entities) ==
    Fmt(Get(entities, <<"first_name">>, Empty)) \o <<SP>>
        \o Fmt(Get(entities, <<"last_name">>, Empty))

\* a template that names the deal after the contact_name field when there is one
DealNameTemplate_ContactName(entities) ==
    <<"Deal", SP, "with", SP>>
        \o Fmt(Or(Get(entities, <<"contact_name">>, None), Str(FullName(entities))))
        \o <<SP, "from", SP>> \o Fmt(Get(entities, <<"company">>, Empty))
\* a template made of the names alone, without the words around them
DealNameTemplate_NamesOnly(entities) ==
    FullName(entities) \o <<SP>> \o Fmt(Get(entities, <<"company">>, Empty))
\* f"Deal with {first_name} {last_name} from {company}"
DealNameTemplate(entities) ==
    <<"Deal", SP, "with", SP>> \o FullName(entities) \o <<SP, "from", SP>>
        \o Fmt(Get(entities, <<"company">>, Empty))

\* the preview_data dict built by create_contact_preview
create_contact_preview(entities) ==
    [email      |-> Get(entities, <<"email">>, Empty),
     first_name |-> Get(entities, <<"first_name">>, Empty),
     last_name  |-> Get(entities, <<"last_name">>, Empty),
     phone      |-> Get(entities, <<"phone">>, Empty),
     company    |-> Get(entities, <<"company">>, Empty),
     properties |-> Get(entities, <<"properties">>, Dict(EmptyDict))]

\* float(amount) without the try / except around it
PreviewAmount_NoCatch(entities) ==
    LET amount == Get(entities, <<"amount">>, None)
    IN  IF ~Truthy(amount) THEN amount ELSE Float(amount[2])
\* amount = entities.get("amount"); if amount: float(amount), None on ValueError
PreviewAmount(entities) ==
    LET amount == Get(entities, <<"amount">>, None)
    IN  IF ~Truthy(amount) THEN amount
        ELSE IF Float(amount[2]) = ValueError THEN None ELSE Float(amount[2])

\* a deal preview without the fallbacks to email and to first and last name
create_deal_preview_NoFallback(entities) ==
    [deal_name     |-> Or(Get(entities, <<"deal_name">>, None),
                          Or(Get(entities, <<"name">>, None),
                             Str(Strip(DealNameTemplate(entities))))),
     amount        |-> PreviewAmount(entities),
     stage         |-> Get(entities, <<"stage">>, W("appointmentscheduled")),
     close_date    |-> Get(entities, <<"close_date">>, Empty),
     contact_email |-> Get(entities, <<"contact_email">>, Empty),
     contact_name  |-> Get(entities, <<"contact_name">>, Empty),
     company       |-> Get(entities, <<"company">>, Empty),
     properties    |-> Get(entities, <<"properties">>, Dict(EmptyDict))]
\* the preview_data dict built by create_deal_preview
create_deal_preview(entities) ==
    [deal_name     |-> Or(Get(entities, <<"deal_name">>, None),
                          Or(Get(entities, <<"name">>, None),
                             Str(Strip(DealNameTemplate(entities))))),
     amount        |-> PreviewAmount(entities),
     stage         |-> Get(entities, <<"stage">>, W("appointmentscheduled")),
     close_date    |-> Get(entities, <<"close_date">>, Empty),
     contact_email |-> Or(Get(entities, <<"contact_email">>, None),
                          Get(entities, <<"email">>, Empty)),
     contact_name  |-> Or(Get(entities, <<"contact_name">>, None),
                          Str(Strip(FullName(entities)))),
     company       |-> Get(entities, <<"company">>, Empty),
     properties    |-> Get(entities, <<"properties">>, Dict(EmptyDict))]

\* get_user_confirmation: one answer to the prompt; "retry" asks again
Confirmation(raw) ==
    LET response == Lower(Strip(raw))
    IN  IF response \in {<<"y">>, <<"yes">>} THEN Bool(TRUE)
        ELSE IF response \in {<<"n">>, <<"no">>} THEN Bool(FALSE)
        ELSE IF response \in {<<"e">>, <<"edit">>} THEN W("edit")
        ELSE W("retry")

\* the fields _edit_contact_data / _edit_deal_data prompt for, in order
ContactFields == <<"email", "first_name", "last_name", "phone", "company">>
DealFields ==
    <<"deal_name", "amount", "stage", "close_date", "contact_name", "contact_email", "company">>

EditFields(type) == IF type = W("contact") THEN ContactFields
                    ELSE IF type = W("deal") THEN DealFields
                    ELSE <<>>

\* the text prompt without `if new:`
EditText_Always(data, field, raw) == [data EXCEPT ![field] = Str(Strip(raw))]

\* new = input(...).strip(); if new: data[field] = new
EditText(data, field, raw) ==
    IF Strip(raw) # <<>> THEN [data EXCEPT ![field] = Str(Strip(raw))] ELSE data

\* the amount prompt of _edit_deal_data
EditAmount(data, raw) ==
    LET new_amount == Strip(raw)
        clean_amount == Strip(Remove(Remove(new_amount, "$"), ","))
    IN  IF new_amount = <<>> THEN data
        ELSE IF Float(clean_amount) = ValueError THEN data
        ELSE [data EXCEPT !.amount = Float(clean_amount)]

\* one prompt of _edit_contact_data / _edit_deal_data answered with raw
EditField(data, field, raw) ==
    IF field = "amount" THEN EditAmount(data, raw) ELSE EditText(data, field, raw)

\* a Contact built without the company of the preview
create_contact_from_preview_NoCompany(data) ==
    [email      |-> data.email,
     first_name |-> data.first_name,
     last_name  |-> data.last_name,
     phone      |-> data.phone,
     company    |-> Empty,
     properties |-> data.properties]
\* @dataclass Contact built by create_contact_from_preview
create_contact_from_preview(data) ==
    [email      |-> data.email,
     first_name |-> data.first_name,
     last_name  |-> data.last_name,
     phone      |-> data.phone,
     company    |-> data.company,
     properties |-> data.properties]

\* a Deal built without the amount of the preview
create_deal_from_preview_NoAmount(data) ==
    [deal_name     |-> data.deal_name,
     amount        |-> None,
     stage         |-> data.stage,
     close_date    |-> data.close_date,
     contact_email |-> data.contact_email,
     properties    |-> data.properties]
\* @dataclass Deal built by create_deal_from_preview
create_deal_from_preview(data) ==
    [deal_name     |-> data.deal_name,
     amount        |-> data.amount,
     stage         |-> data.stage,
     close_date    |-> data.close_date,
     contact_email |-> data.contact_email,
     properties    |-> data.properties]

----------------------------------------------------------------------------
(* HubSpotAgent (src/agents/hubspot_agent.py) and EmailAgent                *)
(* (src/agents/email_agent.py): what they do for each outcome of the        *)
(* HTTP requests and of the SMTP session.                                   *)

HttpOutcomes == {"ok", "error"}
SearchOutcomes == {"found", "empty", "error"}
\* an SMTP session: every step went through, or one step raised an exception
\* that is an smtplib.SMTPException or another Exception
SmtpSteps == {"connect", "starttls", "login", "send_message"}
SmtpOutcomes ==
    {<<"sent">>} \cup {<<step, class>> : step \in SmtpSteps, class \in {"SMTPException", "Exception"}}

\* an exception raised to the caller, with its str()
Raise(msg) == <<"raise", msg>>
Raised(r) == r[1] = "raise"

RequestException == <<"HTTPError">>
UpdateError == <<"dictionary", SP, "update", SP, "sequence">>

\* properties.update(extra) fails when extra is a non-empty string
UpdateFails(extra) == IsStr(extra) /\ Truthy(extra)

\* if extra: properties.update(extra)
Update(d, extra) ==
    IF extra[1] = "dict" /\ Truthy(extra)
    THEN [k \in (DOMAIN d) \cup (DOMAIN extra[2]) |->
             IF k \in DOMAIN extra[2] THEN extra[2][k] ELSE d[k]]
    ELSE d

\* properties[k] = v when v is truthy
PutIf(d, k, v) == IF Truthy(v) THEN Put(d, k, v) ELSE d

\* the properties create_contact posts
ContactProperties(contact) ==
    PutIf(PutIf(PutIf(PutIf([k \in {"email"} |-> contact.email],
        "firstname", contact.first_name),
        "lastname", contact.last_name),
        "phone", contact.phone),
        "company", contact.company)

ContactPayload(contact) == Update(ContactProperties(contact), contact.properties)

\* the properties create_deal posts
DealProperties(deal) ==
    PutIf(PutIf(IF Truthy(deal.amount)
                THEN Put([k \in {"dealname"} |-> deal.deal_name], "amount", Str(Fmt(deal.amount)))
                ELSE [k \in {"dealname"} |-> deal.deal_name],
        "dealstage", deal.stage),
        "closedate", deal.close_date)

DealPayload(deal) == Update(DealProperties(deal), deal.properties)

\* response.json() of a successful POST
Created(kind, properties) == Dict([id |-> W(kind), properties |-> Dict(properties)])

\* HubSpotAgent.create_contact: <<what it returns or raises, what the CRM now holds>>
hubspot_create_contact(contact, post) ==
    IF UpdateFails(contact.properties) THEN <<Raise(UpdateError), <<>>>>
    ELSE IF post = "error" THEN <<Raise(RequestException), <<>>>>
    ELSE <<Created("contact101", ContactPayload(contact)),
           <<<<"contact", ContactPayload(contact)>>>>>>

\* HubSpotAgent.associate_deal_with_contact: <<None or raise, what the CRM now holds>>
associate_deal_with_contact(contact_email, search, put) ==
    IF search = "error" THEN <<Raise(RequestException), <<>>>>
    ELSE IF search = "empty" THEN <<None, <<>>>>
    ELSE IF put = "error" THEN <<Raise(RequestException), <<>>>>
    ELSE <<None, <<<<"association", contact_email>>>>>>

\* HubSpotAgent.create_deal: <<what it returns or raises, what the CRM now holds>>
hubspot_create_deal(deal, post, search, put) ==
    IF UpdateFails(deal.properties) THEN <<Raise(UpdateError), <<>>>>
    ELSE IF post = "error" THEN <<Raise(RequestException), <<>>>>
    ELSE LET made == <<<<"deal", DealPayload(deal)>>>>
             assoc == associate_deal_with_contact(deal.contact_email, search, put)
         IN  IF ~Truthy(deal.contact_email)
             THEN <<Created("deal201", DealPayload(deal)), made>>
             ELSE IF Raised(assoc[1]) THEN <<assoc[1], made>>
             ELSE <<Created("deal201", DealPayload(deal)), made \o assoc[2]>>

\* the with-block of send_email: None when it completes, else what it raises
SmtpSession(smtp) ==
    IF smtp = <<"sent">> THEN None ELSE Raise(<<smtp[2], SP, "in", SP, smtp[1]>>)

\* send_email with only the first except clause
send_email_SmtpOnly(smtp) ==
    LET session == SmtpSession(smtp)
    IN  IF ~Raised(session) THEN Bool(TRUE)
        ELSE IF session[2][1] = "SMTPException" THEN Bool(FALSE)
        ELSE session
\* EmailAgent.send_email: True after the session, False from either except clause
send_email(smtp) ==
    LET session == SmtpSession(smtp)
    IN  IF ~Raised(session) THEN Bool(TRUE)
        ELSE IF session[2][1] = "SMTPException" THEN Bool(FALSE)
        ELSE Bool(FALSE)

----------------------------------------------------------------------------
(* AIAgentOrchestrator (src/agents/orchestrator.py) *)

\* WorkflowState as process_request initialises it
WorkflowState(user_input) ==
    [user_input         |-> user_input,
     intent             |-> None,
     entities           |-> EmptyDict,
     preview_item       |-> None,
     user_confirmed     |-> None,
     contact_data       |-> None,
     deal_data          |-> None,
     hubspot_result     |-> None,
     email_result       |-> None,
     error              |-> None,
     workflow_completed |-> FALSE]

\* the pairs of an ENTITIES line, added to entities in order
RECURSIVE ParsePairs(_, _)
ParsePairs(pairs, entities) ==
    IF pairs = <<>> THEN entities
    ELSE LET pair == Head(pairs)
             kv == Split1(Strip(pair), ":")
         IN  IF Has(pair, ":")
             THEN ParsePairs(Tail(pairs), Put(entities, Strip(kv[1]), Str(Strip(kv[2]))))
             ELSE ParsePairs(Tail(pairs), entities)

\* the loop of _parse_input over the lines of the reply
RECURSIVE ParseLines(_, _)
ParseLines(lines, acc) ==
    IF lines = <<>> THEN acc
    ELSE LET line == Head(lines)
             rest == Strip(Split1(line, ":")[2])
         IN  IF StartsWith(line, <<"INTENT", ":">>)
             THEN ParseLines(Tail(lines), [acc EXCEPT !.intent = Str(rest)])
             ELSE IF StartsWith(line, <<"ENTITIES", ":">>)
             THEN ParseLines(Tail(lines),
                    IF rest # <<>>
                    THEN [acc EXCEPT !.entities = ParsePairs(Split(rest, ","), acc.entities)]
                    ELSE acc)
             ELSE ParseLines(Tail(lines), acc)

\* intent and entities that _parse_input reads from response.text
ParseReply(text) ==
    ParseLines(Split(Strip(text), NL), [intent |-> W("unknown"), entities |-> EmptyDict])

KnownIntents == {W("create_contact"), W("create_deal")}

\* a router that sends every run that has no error to create_preview
_route_workflow_ByError(st) == IF IsNone(st.error) THEN "create_preview" ELSE "handle_error"
\* the conditional edge after parse_input ("error" is mapped to handle_error)
_route_workflow(st) ==
    IF st.intent \in KnownIntents THEN "create_preview" ELSE "handle_error"

\* _route_after_preview without the test of user_confirmed
_route_after_preview_IgnoreFlag(st) ==
    IF st.intent = W("create_contact") THEN "create_contact"
    ELSE IF st.intent = W("create_deal") THEN "create_deal"
    ELSE "handle_error"

\* _route_after_preview testing `user_confirmed is False` instead of `not user_confirmed`
_route_after_preview_IsFalse(st) ==
    IF st.user_confirmed = Bool(FALSE) THEN "handle_error"
    ELSE IF st.intent = W("create_contact") THEN "create_contact"
    ELSE IF st.intent = W("create_deal") THEN "create_deal"
    ELSE "handle_error"

_route_after_preview(st) ==
    IF ~Truthy(st.user_confirmed) THEN "handle_error"
    ELSE IF st.intent = W("create_contact") THEN "create_contact"
    ELSE IF st.intent = W("create_deal") THEN "create_deal"
    ELSE "handle_error"

\* f"<prefix>: {msg}"
Prefixed(prefix, msg) == Str(prefix \o <<":", SP>> \o msg)

----------------------------------------------------------------------------
(* The environment: what the user types, what the language model replies *)

UserInputs == { <<"add", SP, "John", SP, "Doe">>, <<"hello">> }

ReplyContact ==
    <<"INTENT", ":", SP, "create_contact", NL,
      "ENTITIES", ":", SP, "email", ":", "john@x.com", ",", SP, "first_name", ":", "John",
      ",", SP, "last_name", ":", "Doe", ",", SP, "company", ":", "Acme">>

ReplyContactNoEmail ==
    <<"INTENT", ":", SP, "create_contact", NL,
      "ENTITIES", ":", SP, "first_name", ":", "John", ",", SP, "last_name", ":", "Doe">>

ReplyDeal ==
    <<"INTENT", ":", SP, "create_deal", NL,
      "ENTITIES", ":", SP, "deal_name", ":", "Big", ",", SP, "amount", ":", "5", "0", "0", "0",
      ",", SP, "contact_email", ":", "c@x.com">>

ReplyDealNoName ==
    <<"INTENT", ":", SP, "create_deal", NL,
      "ENTITIES", ":", SP, "amount", ":", "5", "0", "0", "0">>

ReplyUnknown == <<"INTENT", ":", SP, "unknown", NL, "ENTITIES", ":">>

ReplyNoIntent == <<"Sorry", ",", SP, "no">>

Replies ==
    {ReplyContact, ReplyContactNoEmail, ReplyDeal, ReplyDealNoName, ReplyUnknown, ReplyNoIntent}

\* Replies in the format the prompt asks for, over a range of field maps: the
\* keys the preview builders read, and one key ("title") they do not know
FieldKeys ==
    << <<"email">>, <<"first_name">>, <<"last_name">>, <<"company">>, <<"title">>,
       <<"deal_name">>, <<"name">>, <<"amount">>, <<"stage">>,
       <<"contact_email">>, <<"contact_name">> >>

\* what a reply may say for the i-th key: nothing (None), or key:value
FieldValues(i) ==
    {None} \cup
    CASE FieldKeys[i] = <<"email">> -> {W("j@x.com")}
      [] FieldKeys[i] = <<"first_name">> -> {W("John")}
      [] FieldKeys[i] = <<"last_name">> -> {W("Doe")}
      [] FieldKeys[i] = <<"company">> -> {W("Acme")}
      [] FieldKeys[i] = <<"title">> -> {W("CEO")}
      [] FieldKeys[i] = <<"deal_name">> -> {Empty, W("Big")}
      [] FieldKeys[i] = <<"name">> -> {W("Alt")}
      [] FieldKeys[i] = <<"amount">> ->
            {Empty, Str(<<"5", "0", "0", "0">>), Str(<<"$", "5">>), W("abc"),
             Str(<<"5", ",", "0", "0", "0">>)}
      [] FieldKeys[i] = <<"stage">> -> {W("won")}
      [] FieldKeys[i] = <<"contact_email">> -> {Empty, W("c@x.com")}
      [] FieldKeys[i] = <<"contact_name">> -> {Empty, Str(<<"Ann", SP, "Lee">>)}

\* every choice for the first n keys
RECURSIVE FieldChoices(_)
FieldChoices(n) ==
    IF n = 0 THEN {<<>>}
    ELSE {Append(c, v) : c \in FieldChoices(n - 1), v \in FieldValues(n)}

\* the "key:value, key:value" text of a choice, from its i-th key on
RECURSIVE RenderEntities(_, _)
RenderEntities(c, i) ==
    IF i > Len(c) THEN <<>>
    ELSE LET rest == RenderEntities(c, i + 1)
         IN  IF IsNone(c[i]) THEN rest
             ELSE FieldKeys[i] \o <<":">> \o c[i][2] \o
                  (IF rest = <<>> THEN <<>> ELSE <<",", SP>> \o rest)

PreviewReplies ==
    {<<"INTENT", ":", SP>> \o intent[2] \o <<NL, "ENTITIES", ":", SP>> \o RenderEntities(c, 1) :
        intent \in KnownIntents, c \in FieldChoices(Len(FieldKeys))}

\* llm.generate_content: a reply, or an exception
LLMError == <<"LLM", SP, "error">>
LLMOutcomes == {Str(r) : r \in Replies} \cup {Raise(LLMError)}

\* input(): a typed line, or EOFError when stdin is closed
EOFError == <<"EOF", SP, "when", SP, "reading", SP, "a", SP, "line">>
ConfirmLines == { <<"y">>, <<SP, "Y", SP>>, <<"n">>, <<"edit">>, <<"maybe">> }
TextLines == { <<>>, <<SP>>, <<SP, "b", SP>> }
AmountLines == TextLines \cup { <<"$", "1", ",", "0">> }
EditLines(field) == IF field = "amount" THEN AmountLines ELSE TextLines
Stdin(lines) == {Str(l) : l \in lines} \cup {Raise(EOFError)}

----------------------------------------------------------------------------
(* The run *)

Init ==
    /\ pc = "idle"
    /\ state = WorkflowState(<<>>)
    /\ heap = <<>>
    /\ edit_pos = 0
    /\ calls = <<>>
    /\ crm = <<>>
    /\ result = None
    /\ runs = 0
    /\ path = <<>>
    /\ typed = None
    /\ parked = None
    /\ shown = None
    /\ reply = None

\* process_request up to the start of workflow_graph.invoke
ProcessRequest ==
    /\ pc \in {"idle", "done"}
    /\ runs < MaxRuns
    /\ \E user_input \in UserInputs : state' = WorkflowState(Str(user_input))
    /\ pc' = "parse_input"
    /\ heap' = <<>>
    /\ edit_pos' = 0
    /\ calls' = <<>>
    /\ crm' = <<>>
    /\ result' = None
    /\ runs' = runs + 1
    /\ path' = <<>>
    /\ typed' = None
    /\ parked' = parked
    /\ shown' = None
    /\ reply' = None

\* the state _parse_input returns for an outcome of the language-model call
_parse_input(st, llm) ==
    IF Raised(llm)
    THEN [st EXCEPT !.error = Prefixed(<<"Error", SP, "parsing", SP, "input">>, llm[2])]
    ELSE [st EXCEPT !.intent = ParseReply(llm[2]).intent,
                    !.entities = ParseReply(llm[2]).entities]

\* the parse_input node when the language-model call ends with one of outcomes
ParseInputOf(outcomes) ==
    /\ pc = "parse_input"
    /\ \E llm \in outcomes :
         /\ reply' = llm
         /\ state' = _parse_input(state, llm)
         /\ pc' = _route_workflow(state')
    /\ path' = Append(path, "parse_input")
    /\ UNCHANGED <<heap, edit_pos, calls, crm, result, runs, typed, parked, shown>>

ParseInput == ParseInputOf(LLMOutcomes)

\* the preview data _create_preview builds, None for an intent it does not know
_create_preview(st) ==
    IF st.intent = W("create_contact") THEN Dict(create_contact_preview(st.entities))
    ELSE IF st.intent = W("create_deal") THEN Dict(create_deal_preview(st.entities))
    ELSE None
\* the heap once the dict d is the object at ref
Store(hp, ref, d) == IF ref \in DOMAIN hp THEN [hp EXCEPT ![ref] = d] ELSE Append(hp, d)

\* one dict kept by the agent and used again for every preview
NewDict_Reused(hp) == 1
\* preview_data = { ... }: the dict display of the builders makes a new object
NewDict(hp) == Len(hp) + 1
PreviewType(st) == IF st.intent = W("create_contact") THEN W("contact") ELSE W("deal")

CreatePreview ==
    /\ pc = "create_preview"
    /\ IF IsNone(_create_preview(state))
       THEN /\ state' = [state EXCEPT
                           !.error = Prefixed(<<"Unknown", SP, "intent">>, Fmt(state.intent))]
            /\ heap' = heap
       ELSE /\ heap' = Store(heap, NewDict(heap), _create_preview(state)[2])
            /\ state' = [state EXCEPT !.preview_item =
                           PreviewItem(PreviewType(state), NewDict(heap), state.user_input)]
    /\ pc' = "show_preview"
    /\ path' = Append(path, "create_preview")
    /\ UNCHANGED <<edit_pos, calls, crm, result, runs, typed, parked, shown, reply>>

\* a display that leaves the company out
display_preview_NoCompany(item, hp) ==
    <<"shown", [type |-> item.type, data |-> [hp[item.data] EXCEPT !.company = Empty]]>>
\* display_preview: prints the type and every field of the data of the item
display_preview(item, hp) == <<"shown", [type |-> item.type, data |-> hp[item.data]]>>

ShowPreviewError(msg) == Prefixed(<<"Error", SP, "showing", SP, "preview">>, msg)

\* _show_preview up to the first prompt
ShowPreview ==
    /\ pc = "show_preview"
    /\ IF ~Truthy(state.preview_item)
       THEN /\ state' = [state EXCEPT
                           !.error = Str(<<"No", SP, "preview", SP, "item", SP, "found">>)]
            /\ pc' = _route_after_preview(state')
            /\ shown' = shown
       ELSE /\ state' = state
            /\ shown' = display_preview(state.preview_item[2], heap)
            /\ pc' = "get_user_confirmation"
    /\ path' = Append(path, "show_preview")
    /\ UNCHANGED <<heap, edit_pos, calls, crm, result, runs, typed, parked, reply>>

\* a rejection that records the flag without the cancellation error
_show_preview_SilentReject(st, line) ==
    IF Raised(line) THEN [st EXCEPT !.error = ShowPreviewError(line[2])]
    ELSE IF Confirmation(line[2]) = Bool(TRUE) THEN [st EXCEPT !.user_confirmed = Bool(TRUE)]
    ELSE IF Confirmation(line[2]) = Bool(FALSE) THEN [st EXCEPT !.user_confirmed = Bool(FALSE)]
    ELSE st
\* the state _show_preview is left in by one answer to "Do you want to create this?"
_show_preview(st, line) ==
    IF Raised(line) THEN [st EXCEPT !.error = ShowPreviewError(line[2])]
    ELSE IF Confirmation(line[2]) = Bool(TRUE) THEN [st EXCEPT !.user_confirmed = Bool(TRUE)]
    ELSE IF Confirmation(line[2]) = Bool(FALSE)
    THEN [st EXCEPT !.user_confirmed = Bool(FALSE),
                    !.error = Str(<<"User", SP, "cancelled", SP, "the", SP, "operation">>)]
    ELSE st

\* a prompt that does not know the answer 'edit' and asks again
AfterConfirmation_NoEdit(st, line) ==
    IF Raised(line) THEN _route_after_preview(st)
    ELSE IF Confirmation(line[2]) \in {Bool(TRUE), Bool(FALSE)} THEN _route_after_preview(st)
    ELSE "get_user_confirmation"
\* where the run goes after that answer
AfterConfirmation(st, line) ==
    IF Raised(line) THEN _route_after_preview(st)
    ELSE IF Confirmation(line[2]) \in {Bool(TRUE), Bool(FALSE)} THEN _route_after_preview(st)
    ELSE IF Confirmation(line[2]) = W("edit") THEN "edit_preview"
    ELSE "get_user_confirmation"

GetUserConfirmation ==
    /\ pc = "get_user_confirmation"
    /\ \E line \in Stdin(ConfirmLines) :
         /\ typed' = line
         /\ state' = _show_preview(state, line)
         /\ pc' = AfterConfirmation(state', line)
         /\ edit_pos' = IF pc' = "edit_preview" THEN 1 ELSE 0
    /\ UNCHANGED <<heap, calls, crm, result, runs, path, parked, shown, reply>>

\* the dict the state's PreviewItem refers to
PreviewData(st, hp) == hp[st.preview_item[2].data]

\* an edited preview that does not carry the original instruction over
edit_preview_LosesInput(item) == PreviewItem(item.type, item.data, Empty)
\* the PreviewItem edit_preview returns: same type, the edited dict, same original_input
edit_preview(item) == PreviewItem(item.type, item.data, item.original_input)

\* edit_preview: one prompt of _edit_contact_data / _edit_deal_data; the data dict
\* is edited in place, and after the last prompt the returned PreviewItem (same
\* type, same data dict, same original_input) is stored and displayed
EditPreview ==
    /\ pc = "edit_preview"
    /\ LET item == state.preview_item[2]
           fields == EditFields(item.type)
           field == fields[edit_pos]
       IN  \E line \in Stdin(EditLines(field)) :
             /\ typed' = line
             /\ IF Raised(line)
                THEN /\ state' = [state EXCEPT !.error = ShowPreviewError(line[2])]
                     /\ heap' = heap
                     /\ edit_pos' = 0
                     /\ pc' = _route_after_preview(state')
                     /\ shown' = shown
                ELSE /\ heap' = [heap EXCEPT ![item.data] = EditField(@, field, line[2])]
                     /\ IF edit_pos < Len(fields)
                        THEN /\ edit_pos' = edit_pos + 1
                             /\ pc' = pc
                             /\ state' = state
                             /\ shown' = shown
                        ELSE /\ edit_pos' = 0
                             /\ pc' = "get_user_confirmation"
                             /\ state' = [state EXCEPT !.preview_item = edit_preview(item)]
                             /\ shown' = display_preview(state'.preview_item[2], heap')
    /\ UNCHANGED <<calls, crm, result, runs, path, parked, reply>>

\* an edge that runs the dispatch node again after a failure
DispatchEdge_Retry(st, node) == IF Truthy(st.error) THEN node ELSE "send_notification"
\* workflow.add_edge("create_contact" / "create_deal", "send_notification")
DispatchEdge(st, node) == "send_notification"

\* a node that stores the result in the contact slot only
_create_contact_OneSlot(st, out) ==
    IF Raised(out)
    THEN [st EXCEPT !.error = Prefixed(<<"Error", SP, "creating", SP, "contact">>, out[2])]
    ELSE [st EXCEPT !.contact_data = out]
\* the state _create_contact returns when the executor call ended with outcome out
_create_contact(st, out) ==
    IF Raised(out)
    THEN [st EXCEPT !.error = Prefixed(<<"Error", SP, "creating", SP, "contact">>, out[2])]
    ELSE [st EXCEPT !.contact_data = out, !.hubspot_result = out]

CreateContact ==
    /\ pc = "create_contact"
    /\ IF ~Truthy(state.preview_item)
       THEN /\ state' = [state EXCEPT !.error =
                  Str(<<"No", SP, "preview", SP, "item", SP, "found", SP, "for", SP,
                        "contact", SP, "creation">>)]
            /\ UNCHANGED <<calls, crm>>
       ELSE \E post \in HttpOutcomes :
              LET contact == create_contact_from_preview(PreviewData(state, heap))
                  done == hubspot_create_contact(contact, post)
              IN  /\ calls' = Append(calls, <<"create_contact", contact>>)
                  /\ crm' = crm \o done[2]
                  /\ state' = _create_contact(state, done[1])
    /\ pc' = DispatchEdge(state', "create_contact")
    /\ path' = Append(path, "create_contact")
    /\ UNCHANGED <<heap, edit_pos, result, runs, typed, parked, shown, reply>>

\* a node that reports the failure without the message of the exception
_create_deal_NoMessage(st, out) ==
    IF Raised(out)
    THEN [st EXCEPT !.error = Str(<<"Error", SP, "creating", SP, "deal">>)]
    ELSE [st EXCEPT !.deal_data = out, !.hubspot_result = out]
\* the state _create_deal returns when the executor call ended with outcome out
_create_deal(st, out) ==
    IF Raised(out)
    THEN [st EXCEPT !.error = Prefixed(<<"Error", SP, "creating", SP, "deal">>, out[2])]
    ELSE [st EXCEPT !.deal_data = out, !.hubspot_result = out]

CreateDeal ==
    /\ pc = "create_deal"
    /\ IF ~Truthy(state.preview_item)
       THEN /\ state' = [state EXCEPT !.error =
                  Str(<<"No", SP, "preview", SP, "item", SP, "found", SP, "for", SP,
                        "deal", SP, "creation">>)]
            /\ UNCHANGED <<calls, crm>>
       ELSE \E post \in HttpOutcomes, search \in SearchOutcomes, put \in HttpOutcomes :
              LET deal == create_deal_from_preview(PreviewData(state, heap))
                  done == hubspot_create_deal(deal, post, search, put)
              IN  /\ calls' = Append(calls, <<"create_deal", deal>>)
                  /\ crm' = crm \o done[2]
                  /\ state' = _create_deal(state, done[1])
    /\ pc' = DispatchEdge(state', "create_deal")
    /\ path' = Append(path, "create_deal")
    /\ UNCHANGED <<heap, edit_pos, result, runs, typed, parked, shown, reply>>

\* an edge that sends a run whose notification was not delivered to handle_error
FinalEdge_Escalates(st, node) ==
    IF node = "send_notification" /\ st.email_result = Bool(FALSE) THEN "handle_error" ELSE "END"
\* an edge from send_notification into handle_error
FinalEdge_NotifyThenError(st, node) == IF node = "send_notification" THEN "handle_error" ELSE "END"
\* workflow.add_edge("send_notification" / "handle_error", END)
FinalEdge(st, node) == "END"

\* the amount _send_notification reports for a deal
NotifiedAmount(entities) ==
    IF <<"amount">> \in DOMAIN entities
    THEN LET parsed == Float(Remove(Remove(entities[<<"amount">>][2], "$"), ","))
         IN  IF parsed = ValueError THEN None ELSE parsed
    ELSE None

\* _send_notification without its create_deal branch
Notification_ContactOnly(st) ==
    IF st.intent = W("create_contact")
    THEN <<"send_contact_created_notification",
           <<Get(st.entities, <<"email">>, None), Str(Strip(FullName(st.entities)))>>>>
    ELSE <<>>

\* the notifier call _send_notification makes, <<>> when it makes none
Notification(st) ==
    IF st.intent = W("create_contact")
    THEN <<"send_contact_created_notification",
           <<Get(st.entities, <<"email">>, None), Str(Strip(FullName(st.entities)))>>>>
    ELSE IF st.intent = W("create_deal")
    THEN <<"send_deal_created_notification",
           <<Or(Get(st.entities, <<"deal_name">>, None), Get(st.entities, <<"name">>, None)),
             NotifiedAmount(st.entities),
             Get(st.entities, <<"contact_email">>, None)>>>>
    ELSE <<>>

\* a node that records an undelivered notification as the run's error
_send_notification_RecordsError(st, out) ==
    IF out = Bool(TRUE)
    THEN [st EXCEPT !.email_result = out, !.workflow_completed = TRUE]
    ELSE [st EXCEPT !.email_result = Bool(FALSE), !.workflow_completed = TRUE,
                    !.error = Str(<<"Failed", SP, "to", SP, "send", SP, "notification">>)]
\* the state _send_notification returns when the notifier call ended with outcome
\* out (its boolean answer, or an exception, which the except branch absorbs)
_send_notification(st, out) ==
    [st EXCEPT !.email_result = IF Raised(out) THEN Bool(FALSE) ELSE out,
               !.workflow_completed = TRUE]

SendNotification ==
    /\ pc = "send_notification"
    /\ \E smtp \in SmtpOutcomes :
         IF Notification(state) = <<>>
         THEN /\ calls' = calls
              /\ state' = _send_notification(state, Bool(FALSE))
         ELSE /\ calls' = Append(calls, Notification(state))
              /\ state' = _send_notification(state, send_email(smtp))
    /\ pc' = FinalEdge(state', "send_notification")
    /\ path' = Append(path, "send_notification")
    /\ UNCHANGED <<heap, edit_pos, crm, result, runs, typed, parked, shown, reply>>

\* the notifier call _handle_error makes
ErrorNotification(st) ==
    <<"send_error_notification",
      <<st.error, Prefixed(<<"User", SP, "input">>, Fmt(st.user_input))>>>>

\* an error handler that clears the error it has reported
_handle_error_ClearsError(st) == [st EXCEPT !.error = None, !.workflow_completed = TRUE]
\* the state _handle_error returns; the notifier's answer is not looked at
_handle_error(st) == [st EXCEPT !.workflow_completed = TRUE]

HandleError ==
    /\ pc = "handle_error"
    /\ \E smtp \in SmtpOutcomes :
         /\ calls' = Append(calls, ErrorNotification(state))
         /\ state' = _handle_error(state)
    /\ pc' = FinalEdge(state', "handle_error")
    /\ path' = Append(path, "handle_error")
    /\ UNCHANGED <<heap, edit_pos, crm, result, runs, typed, parked, shown, reply>>

WorkflowResult(success, message, data, error) ==
    <<"WorkflowResult", [success |-> success, message |-> message, data |-> data, error |-> error]>>

\* one message for every intent
SuccessMessage_Generic(st) == <<"Workflow", SP, "completed", SP, "successfully">>
\* the success message of process_request
SuccessMessage(st) ==
    IF st.intent = W("create_contact")
    THEN <<"Contact", SP, "created", SP, "successfully", SP, "for", SP>>
             \o Fmt(Get(st.entities, <<"email">>, None))
    ELSE IF st.intent = W("create_deal")
    THEN <<"Deal", SP, "created", SP, "successfully", ":", SP>>
             \o Fmt(Get(st.entities, <<"deal_name">>, W("Unknown")))
    ELSE <<"Workflow", SP, "completed", SP, "successfully">>

\* process_request testing workflow_completed instead of error
process_request_CompletedOnly(st) ==
    IF ~st.workflow_completed
    THEN WorkflowResult(FALSE, Prefixed(<<"Workflow", SP, "failed">>, Fmt(st.error))[2],
                        None, st.error)
    ELSE WorkflowResult(TRUE, SuccessMessage(st),
                        Dict([hubspot_result |-> st.hubspot_result,
                              email_sent |-> st.email_result,
                              entities |-> Dict(st.entities)]),
                        None)

\* the WorkflowResult process_request builds from the final state
process_request(st) ==
    IF Truthy(st.error)
    THEN WorkflowResult(FALSE, Prefixed(<<"Workflow", SP, "failed">>, Fmt(st.error))[2],
                        None, st.error)
    ELSE WorkflowResult(TRUE, SuccessMessage(st),
                        Dict([hubspot_result |-> st.hubspot_result,
                              email_sent |-> st.email_result,
                              entities |-> Dict(st.entities)]),
                        None)

Return ==
    /\ pc = "END"
    /\ result' = process_request(state)
    /\ pc' = "done"
    /\ UNCHANGED <<state, heap, edit_pos, calls, crm, runs, path, typed, parked, shown, reply>>

Next ==
    \/ ProcessRequest
    \/ ParseInput
    \/ CreatePreview
    \/ ShowPreview
    \/ GetUserConfirmation
    \/ EditPreview
    \/ CreateContact
    \/ CreateDeal
    \/ SendNotification
    \/ HandleError
    \/ Return

Spec == Init /\ [][Next]_vars

\* The same runs when the process is not stopped from outside: a node that has
\* been reached runs, and a prompt returns (with a line, or with EOFError)
LiveSpec == Spec /\ WF_vars(Next)

\* Two invocations of process_request on one orchestrator, interleaved: the run
\* that executes is in pc, state, ..., the other one is parked; they share the
\* heap. The inputs are fewer than in Spec: two replies, no closed stdin, and
\* edits that change the first two fields only.
Context ==
    <<"Context",
      [pc |-> pc, state |-> state, edit_pos |-> edit_pos, calls |-> calls, crm |-> crm,
       result |-> result, path |-> path, typed |-> typed, shown |-> shown,
       reply |-> reply]>>

\* process_request called while another invocation is in progress
ProcessRequestMeanwhile ==
    /\ pc \notin {"idle", "done"}
    /\ IsNone(parked)
    /\ runs < MaxRuns
    /\ parked' = Context
    /\ \E user_input \in UserInputs :
         /\ Str(user_input) # state.user_input
         /\ state' = WorkflowState(Str(user_input))
    /\ pc' = "parse_input"
    /\ edit_pos' = 0
    /\ calls' = <<>>
    /\ crm' = <<>>
    /\ result' = None
    /\ runs' = runs + 1
    /\ path' = <<>>
    /\ typed' = None
    /\ shown' = None
    /\ reply' = None
    /\ heap' = heap

\* the scheduler lets the other invocation execute
Switch ==
    /\ ~IsNone(parked)
    /\ parked' = Context
    /\ pc' = parked[2].pc
    /\ state' = parked[2].state
    /\ edit_pos' = parked[2].edit_pos
    /\ calls' = parked[2].calls
    /\ crm' = parked[2].crm
    /\ result' = parked[2].result
    /\ path' = parked[2].path
    /\ typed' = parked[2].typed
    /\ shown' = parked[2].shown
    /\ reply' = parked[2].reply
    /\ UNCHANGED <<heap, runs>>

TwoRunsNext ==
    \/ ProcessRequest /\ IsNone(parked)
    \/ ProcessRequestMeanwhile
    \/ Switch
    \/ ParseInputOf({Str(ReplyContact), Str(ReplyDeal)})
    \/ CreatePreview
    \/ ShowPreview
    \/ GetUserConfirmation /\ typed' \in {Str(<<"y">>), Str(<<"n">>), Str(<<"edit">>)}
    \/ EditPreview /\ typed' \in {Str(<<>>), Str(<<SP, "b", SP>>)}
                   /\ (typed' # Str(<<>>) => edit_pos \in {1, 2})
    \/ CreateContact
    \/ CreateDeal
    \/ SendNotification
    \/ HandleError
    \/ Return

TwoRunsSpec == Init /\ [][TwoRunsNext]_vars

\* The run up to the built preview, over the replies of PreviewReplies
ParsePreviewReply == ParseInputOf({Str(r) : r \in PreviewReplies})
\* The deal runs over every field map of the keys the deal name is made of
\* (line 56 of create_deal_preview), the empty map included, through edit cycles
\* to the executor. The edits are fewer than in Spec: any answer to the deal
\* name prompt, Enter at the others, and stdin stays open.
DealNameKeys == {<<"deal_name">>, <<"name">>, <<"first_name">>, <<"last_name">>, <<"company">>}

DealNameReplies ==
    {<<"INTENT", ":", SP, "create_deal", NL, "ENTITIES", ":", SP>> \o RenderEntities(c, 1) :
        c \in {d \in FieldChoices(Len(FieldKeys)) :
                  \A i \in 1..Len(FieldKeys) : FieldKeys[i] \notin DealNameKeys => IsNone(d[i])}}

ParseDealNameReply == ParseInputOf({Str(r) : r \in DealNameReplies})

DealNameNext ==
    \/ ProcessRequest
    \/ ParseDealNameReply
    \/ CreatePreview
    \/ ShowPreview
    \/ GetUserConfirmation /\ typed' \in {Str(<<"y">>), Str(<<"n">>), Str(<<"edit">>)}
    \/ EditPreview /\ typed' \in {Str(l) : l \in TextLines}
                   /\ (typed' # Str(<<>>) => edit_pos = 1)
    \/ CreateDeal
    \/ SendNotification
    \/ HandleError
    \/ Return

DealNameSpec == Init /\ [][DealNameNext]_vars
PreviewNext ==
    \/ ProcessRequest
    \/ ParsePreviewReply
    \/ CreatePreview

PreviewSpec == Init /\ [][PreviewNext]_vars

----------------------------------------------------------------------------
(* Properties *)

NotifierOps ==
    {"send_contact_created_notification", "send_deal_created_notification",
     "send_error_notification"}
ExecutorOps == {"create_contact", "create_deal"}

\* the calls of the run made on the given operations
CallsOf(ops) == SelectSeq(calls, LAMBDA c : c[1] \in ops)

Visited(node) == \E i \in 1..Len(path) : path[i] = node
Finished == pc \in {"END", "done"}
UserCancelled == Str(<<"User", SP, "cancelled", SP, "the", SP, "operation">>)
ExecutorFailed ==
    /\ IsStr(state.error)
    /\ \/ StartsWith(state.error[2], <<"Error", SP, "creating", SP, "contact">>)
       \/ StartsWith(state.error[2], <<"Error", SP, "creating", SP, "deal">>)

\* C1: every run makes exactly one call on the Notifier, whichever terminal path
\* it takes: never more than one while it runs, exactly one once it has finished.
C1_ExactlyOneNotification ==
    /\ Len(CallsOf(NotifierOps)) <= 1
    /\ Finished => Len(CallsOf(NotifierOps)) = 1

\* a finished run that was approved and whose executor call failed
C1_Witness_ApprovedThenFailed ==
    /\ pc = "done"
    /\ state.user_confirmed = Bool(TRUE)
    /\ ExecutorFailed
    /\ Len(CallsOf(NotifierOps)) = 1

\* C2: the kind of the notification matches the outcome: a finished run with an
\* error went through handle_error and sent the error notification, and a
\* contact-created / deal-created notification is sent only by a confirmed run
\* whose executor call succeeded.
C2_NotificationMatchesOutcome ==
    Finished =>
        /\ Truthy(state.error) =>
               /\ Visited("handle_error")
               /\ CallsOf(NotifierOps) = <<ErrorNotification(state)>>
        /\ CallsOf(NotifierOps \ {"send_error_notification"}) # <<>> =>
               /\ state.user_confirmed = Bool(TRUE)
               /\ ~IsNone(state.hubspot_result)

\* C3: a run whose intent is neither create_contact nor create_deal builds no
\* preview, goes from parse_input straight to handle_error and returns
\* success = False.
C3_UnknownIntentFails ==
    (pc = "done" /\ IsStr(state.intent) /\ state.intent \notin KnownIntents) =>
        /\ heap = <<>>
        /\ IsNone(state.preview_item)
        /\ path = <<"parse_input", "handle_error">>
        /\ result[2].success = FALSE

\* C4: a run the user rejected, after any number of edit cycles, makes no executor
\* call, carries the error "User cancelled the operation", sends the error
\* notification and nothing else, and returns success = False with that error.
C4_RejectFails ==
    state.user_confirmed = Bool(FALSE) =>
        /\ CallsOf(ExecutorOps) = <<>>
        /\ state.error = UserCancelled
        /\ Finished => calls = <<ErrorNotification(state)>>
        /\ pc = "done" => /\ result[2].success = FALSE
                          /\ result[2].error = UserCancelled

\* a rejected, finished run whose preview had been edited before the rejection
C4_Witness_RejectAfterEdit ==
    /\ pc = "done"
    /\ state.user_confirmed = Bool(FALSE)
    /\ Dict(PreviewData(state, heap)) # _create_preview(state)
    /\ result[2].success = FALSE

\* C5: the executor is invoked only in a run whose confirmation ended with
\* approve; a run that left show_preview with the flag false or undetermined
\* goes to handle_error and finishes without an executor call.
C5_ExecutorOnlyAfterApprove ==
    /\ (CallsOf(ExecutorOps) # <<>> \/ pc \in ExecutorOps) => state.user_confirmed = Bool(TRUE)
    /\ (Finished /\ Visited("show_preview") /\ state.user_confirmed # Bool(TRUE)) =>
           /\ Visited("handle_error")
           /\ CallsOf(ExecutorOps) = <<>>

\* the executor has been invoked in an approved run
C5_Witness_ExecutorInvoked ==
    /\ Len(CallsOf(ExecutorOps)) = 1
    /\ state.user_confirmed = Bool(TRUE)

\* C6: no retries: the executor is invoked at most once in a run and each
\* notifier method at most once, also after a failed executor call or a failed
\* delivery.
C6_NoRetry ==
    /\ Len(CallsOf(ExecutorOps)) <= 1
    /\ \A op \in NotifierOps : Len(CallsOf({op})) <= 1

\* a finished run whose executor call failed and whose notification was not delivered
C6_Witness_BothFailed ==
    /\ pc = "done"
    /\ ExecutorFailed
    /\ state.email_result = Bool(FALSE)
    /\ Len(CallsOf(ExecutorOps)) = 1

\* C7: dispatch of a contact preview whose email is blank fails with the
\* validation error, leaves contact_data unset and never invokes the executor.
C7_BlankEmailRejected ==
    (Visited("create_contact") /\ ~Truthy(PreviewData(state, heap).email)) =>
        /\ state.error =
               Str(<<"Email", SP, "is", SP, "required", SP, "to", SP, "create", SP, "a", SP,
                     "contact">>)
        /\ IsNone(state.contact_data)
        /\ CallsOf({"create_contact"}) = <<>>

\* C8: dispatch of a deal preview whose deal_name is blank, or of a deal run for
\* which the extracted fields hold no deal name, fails with the validation error
\* and leaves deal_data unset.
C8_BlankDealNameRejected ==
    (/\ Visited("create_deal")
     /\ \/ ~Truthy(PreviewData(state, heap).deal_name)
        \/ ~Truthy(Or(Get(state.entities, <<"deal_name">>, None),
                      Get(state.entities, <<"name">>, None)))) =>
        /\ state.error = Str(<<"Deal", SP, "name", SP, "is", SP, "required">>)
        /\ IsNone(state.deal_data)

\* C9: no error is dropped: when the run has returned with an error in its state,
\* the WorkflowResult has success = False, that error as its error, and a message
\* that contains it.
C9_ErrorSurfaced ==
    (pc = "done" /\ ~IsNone(state.error)) =>
        /\ result[2].success = FALSE
        /\ result[2].error = state.error
        /\ Contains(result[2].message, state.error[2])

\* a returned run that was approved and carries the executor's error
C9_Witness_ExecutorErrorReturned ==
    /\ pc = "done"
    /\ ExecutorFailed
    /\ result[2].error = state.error

\* the field the pending edit prompt asks for
PromptedField == EditFields(state.preview_item[2].type)[edit_pos]

\* C10 as stated: an edit prompt answered with the empty string leaves the field,
\* and one answered with a non-empty string sets the field to exactly that string.
C10_EditExact ==
    [][(pc = "edit_preview" /\ typed'[1] = "str") =>
          LET raw == typed'[2]
              old == PreviewData(state, heap)[PromptedField]
              new == PreviewData(state', heap')[PromptedField]
          IN  /\ raw = <<>> => new = old
              /\ raw # <<>> => new = Str(raw)]_vars

\* C10 as amended: an answer that is empty or only whitespace leaves the field; any
\* other answer sets a text field to the answer with the surrounding whitespace
\* removed; for the amount, an answer that is a number once "$" and "," are
\* removed sets the amount to that number, and any other answer leaves it.
C10_EditTrimmed ==
    [][(pc = "edit_preview" /\ typed'[1] = "str") =>
          LET raw == typed'[2]
              old == PreviewData(state, heap)[PromptedField]
              new == PreviewData(state', heap')[PromptedField]
              number == Float(Remove(Remove(Strip(raw), "$"), ","))
          IN  /\ Strip(raw) = <<>> => new = old
              /\ (Strip(raw) # <<>> /\ PromptedField # "amount") => new = Str(Strip(raw))
              /\ (Strip(raw) # <<>> /\ PromptedField = "amount") =>
                     new = IF number = ValueError THEN old ELSE number]_vars

\* the amount prompt has just been answered "$1,0" and the amount is 10
C10_Witness_AmountEdited ==
    /\ pc = "edit_preview"
    /\ typed = Str(<<"$", "1", ",", "0">>)
    /\ PreviewData(state, heap).amount = Num(10)

\* ---- C11 ----
\* the two places of the confirmation loop of _show_preview
PreviewLoop == {"get_user_confirmation", "edit_preview"}

\* the step on which the confirmation loop is left
LeavesPreviewLoop == pc \in PreviewLoop /\ pc' \notin PreviewLoop

ExitByApprove == state'.user_confirmed = Bool(TRUE) /\ IsNone(state'.error)

ExitByReject == state'.user_confirmed = Bool(FALSE) /\ state'.error = UserCancelled

\* the except branch of _show_preview: a prompt raised, the flag was never set
ExitByException ==
    /\ Raised(typed')
    /\ IsNone(state'.user_confirmed)
    /\ state'.error = ShowPreviewError(typed'[2])

\* C11 as stated: the confirmation loop is left only by Approve (user_confirmed
\* true, no error) or by Reject (user_confirmed false, error "User cancelled the
\* operation"), so user_confirmed is never undetermined once the preview step
\* has finished with a preview present.
C11_ExitOnlyByAnswer ==
    [][LeavesPreviewLoop => (ExitByApprove \/ ExitByReject)]_vars

\* C11 amended: the confirmation loop is left by Approve, by Reject, or by an
\* exception raised while prompting, which leaves user_confirmed undetermined
\* and sets the error "Error showing preview: ..."; whenever no prompt raised,
\* user_confirmed is true or false once the loop is left.
C11_ExitByAnswerOrException ==
    [][LeavesPreviewLoop => (ExitByApprove \/ ExitByReject \/ ExitByException)]_vars

\* C11 witness: the loop was left through the except branch of _show_preview,
\* with the preview present and the flag undetermined
C11_Witness_PromptRaised ==
    /\ pc = "handle_error"
    /\ Raised(typed)
    /\ Truthy(state.preview_item)
    /\ IsNone(state.user_confirmed)
    /\ state.error = ShowPreviewError(EOFError)

\* ---- C12 ----
\* a step inside one run (process_request starts the next run on a new state)
SameRun == runs' = runs

\* C12: once the error of a run's state is set it stays set in every later
\* state of that run; a later node may replace it but never clears it.
C12_ErrorNeverCleared ==
    [][(SameRun /\ ~IsNone(state.error)) => ~IsNone(state'.error)]_vars

\* C12 witness: a run whose error was set by a prompt of the preview step and carried
\* through handle_error to the end of the run
C12_Witness_ErrorKept ==
    /\ pc = "done"
    /\ Visited("handle_error")
    /\ state.error = ShowPreviewError(EOFError)
    /\ result[2].error = state.error

\* ---- C13 ----
\* C13: once workflow_completed is true, no field of the run's state changes and
\* no further node executes (no node is entered, no collaborator is called, the
\* preview data is not touched) for the rest of that run.
C13_CompletedIsFinal ==
    [][(SameRun /\ state.workflow_completed) =>
          /\ state' = state
          /\ path' = path
          /\ calls' = calls
          /\ crm' = crm
          /\ heap' = heap]_vars

\* C13 witness: a completed run has been handed back by process_request with
\* its state as send_notification left it
C13_Witness_ReturnedAfterCompletion ==
    /\ pc = "done"
    /\ state.workflow_completed
    /\ path[Len(path)] = "send_notification"
    /\ result[2].success
    /\ result[2].data[2].email_sent = state.email_result

\* ---- C14 ----
\* the final state as it would be had the notification been delivered
AsIfDelivered ==
    IF IsNone(state.email_result) THEN state ELSE [state EXCEPT !.email_result = Bool(TRUE)]

\* C14: whatever the notifier answers (delivered or not), the node that called
\* it attaches no error to the run's state, goes straight to END (the call is
\* not retried, handle_error is not entered or re-entered), and the result
\* handed back has the success flag and the error it would have had if the
\* notification had been delivered.
C14_DeliveryFailureIsSilent ==
    [][/\ (pc \in {"send_notification", "handle_error"}) =>
             /\ state'.error = state.error
             /\ pc' = "END"
             /\ Len(calls') <= Len(calls) + 1
       /\ (pc = "END") =>
             /\ result'[2].success = process_request(AsIfDelivered)[2].success
             /\ result'[2].error = process_request(AsIfDelivered)[2].error]_vars

\* C14 witness: a run came back successful although its one notification was
\* not delivered
C14_Witness_UndeliveredButSuccessful ==
    /\ pc = "done"
    /\ state.email_result = Bool(FALSE)
    /\ Len(CallsOf(NotifierOps)) = 1
    /\ ~Visited("handle_error")
    /\ result[2].success
    /\ IsNone(result[2].error)

\* ---- C15 ----
\* create_preview has just run
PreviewBuilt == pc = "show_preview" /\ path[Len(path)] = "create_preview"

\* the value of a key of the extracted field map, None when the key is missing
Field(key) == Get(state.entities, <<key>>, None)

\* a string that is a number as it stands
Numeric(v) == IsStr(v) /\ v[2] # <<>> /\ \A i \in 1..Len(v[2]) : v[2][i] \in Digits

\* the kind of preview that corresponds to an intent
KindOf(intent) ==
    IF intent = W("create_contact") THEN W("contact")
    ELSE IF intent = W("create_deal") THEN W("deal")
    ELSE None

\* C15: for every known intent and every extracted field map, fields missing or
\* amount not a number included, building the preview does not fail (no error
\* is set) and gives a preview whose kind corresponds to the intent; in a deal
\* preview an amount that is not a number becomes None.
C15_PreviewAlwaysBuilt ==
    PreviewBuilt =>
        /\ IsNone(state.error)
        /\ state.preview_item[1] = "PreviewItem"
        /\ state.preview_item[2].type = KindOf(state.intent)
        /\ (state.intent = W("create_deal") /\ Truthy(Field("amount"))) =>
              PreviewData(state, heap).amount =
                 IF Numeric(Field("amount")) THEN Num(Decimal(Field("amount")[2])) ELSE None

\* C15 witness: a deal preview was built from a field map that has only an
\* amount, and the amount is not a number
C15_Witness_AmountNotANumber ==
    /\ PreviewBuilt
    /\ state.intent = W("create_deal")
    /\ DOMAIN state.entities = {<<"amount">>}
    /\ Field("amount") = W("abc")
    /\ state.preview_item[2].type = W("deal")
    /\ IsNone(PreviewData(state, heap).amount)

\* ---- C16 ----
\* C16: within a run, after parse_input the intent and the instruction never
\* change, and across any number of edit cycles the preview keeps the kind it
\* was built with, which corresponds to the intent, and its original_input
\* stays equal to the instruction of the run.
C16_KindAndOriginKept ==
    [][(SameRun /\ pc # "parse_input") =>
          /\ state'.intent = state.intent
          /\ state'.user_input = state.user_input
          /\ ~IsNone(state.preview_item) =>
                /\ state'.preview_item[2].type = state.preview_item[2].type
                /\ state'.preview_item[2].original_input = state.preview_item[2].original_input
          /\ ~IsNone(state'.preview_item) =>
                /\ state'.preview_item[2].type = KindOf(state'.intent)
                /\ state'.preview_item[2].original_input = state'.user_input]_vars

\* C16 witness: an edit cycle that changed the data of a deal preview has
\* completed and its PreviewItem has been stored
C16_Witness_EditCycleDone ==
    /\ pc = "get_user_confirmation"
    /\ ~IsNone(typed) /\ ~Raised(typed)
    /\ path[Len(path)] = "show_preview"
    /\ state.preview_item[2].type = W("deal")
    /\ Dict(PreviewData(state, heap)) # _create_preview(state)

\* ---- C17 ----
\* the keys create_contact_preview copies by name
ContactSchema ==
    {<<"email">>, <<"first_name">>, <<"last_name">>, <<"phone">>, <<"company">>}

\* C17: every key of the extracted field map that is not part of the contact
\* schema is carried, with its value, into the properties bag of the contact
\* preview that is built.
C17_ExtrasCarried ==
    (PreviewBuilt /\ state.intent = W("create_contact")) =>
        LET bag == PreviewData(state, heap).properties
        IN  \A k \in (DOMAIN state.entities) \ ContactSchema :
                /\ bag[1] = "dict"
                /\ k \in DOMAIN bag[2]
                /\ bag[2][k] = state.entities[k]

\* ---- C18 ----
\* the text of a key of the extracted field map, empty when the key is missing
Text(key) == IF IsNone(Field(key)) THEN <<>> ELSE Field(key)[2]

\* a deal preview has just been built
DealBuilt == PreviewBuilt /\ state.intent = W("create_deal")

\* the contact name of the deal: the contact_name field, or first and last name
ClaimedContactName ==
    IF IsNone(Field("contact_name")) THEN Text("first_name") \o <<SP>> \o Text("last_name")
    ELSE Text("contact_name")

\* C18 as stated: when the field map has no deal_name, the deal_name of the deal
\* preview is "Deal with {contact_name} from {company}", contact_name being the
\* contact_name field, or first and last name when that field is missing
\* (compared without regard to spaces).
C18_NameFromContactName ==
    (DealBuilt /\ IsNone(Field("deal_name"))) =>
        Remove(PreviewData(state, heap).deal_name[2], SP) =
            Remove(<<"Deal", SP, "with", SP>> \o ClaimedContactName
                      \o <<SP, "from", SP>> \o Text("company"), SP)

\* C18 amended: the deal_name of a deal preview is the deal_name field when it
\* is not empty, else the name field when it is not empty, else the text
\* "Deal with {first_name} {last_name} from {company}" with the spaces at its
\* ends removed, a missing field counting as empty; the contact_name field is
\* not used.
C18_NameFromFirstAndLast ==
    DealBuilt =>
        PreviewData(state, heap).deal_name =
            IF Text("deal_name") # <<>> THEN Field("deal_name")
            ELSE IF Text("name") # <<>> THEN Field("name")
            ELSE Str(Strip(<<"Deal", SP, "with", SP>> \o Text("first_name") \o <<SP>>
                              \o Text("last_name") \o <<SP, "from", SP>> \o Text("company")))

\* C18 witness: a deal preview built from a field map with contact_name and
\* company only got a synthesized name without the contact's name
C18_Witness_ContactNameIgnored ==
    /\ DealBuilt
    /\ DOMAIN state.entities = {<<"contact_name">>, <<"company">>}
    /\ Field("contact_name") = Str(<<"Ann", SP, "Lee">>)
    /\ PreviewData(state, heap).deal_name =
          Str(<<"Deal", SP, "with", SP, SP, SP, "from", SP, "Acme">>)

\* ---- C19 ----
\* C19 as stated: in a deal preview that was built, stage is
\* "appointmentscheduled" when the field map has no stage, contact_email is the
\* email field when the field map has no contact_email, contact_name is
\* first_name, a space, last_name when the field map has no contact_name (compared
\* without regard to spaces), and a field the field map has is copied as given.
C19_DefaultsWhenKeyMissing ==
    DealBuilt =>
        LET data == PreviewData(state, heap)
        IN  /\ IsNone(Field("stage")) => data.stage = W("appointmentscheduled")
            /\ IsNone(Field("contact_email")) => data.contact_email = Str(Text("email"))
            /\ IsNone(Field("contact_name")) =>
                  Remove(data.contact_name[2], SP) =
                     Remove(Text("first_name") \o <<SP>> \o Text("last_name"), SP)
            /\ ~IsNone(Field("stage")) => data.stage = Field("stage")
            /\ ~IsNone(Field("contact_email")) => data.contact_email = Field("contact_email")
            /\ ~IsNone(Field("contact_name")) => data.contact_name = Field("contact_name")
            /\ ~IsNone(Field("company")) => data.company = Field("company")

\* C19 amended: in a deal preview that was built, stage is the stage field, or
\* "appointmentscheduled" when the key is missing; contact_email is the
\* contact_email field when it is not empty, else the email field (empty when
\* missing); contact_name is the contact_name field when it is not empty, else
\* first_name, a space, last_name with the spaces at the ends removed; company
\* and close_date are copied, empty when missing.
C19_DefaultsWhenMissingOrEmpty ==
    DealBuilt =>
        LET data == PreviewData(state, heap)
        IN  /\ data.stage =
                  IF IsNone(Field("stage")) THEN W("appointmentscheduled") ELSE Field("stage")
            /\ data.contact_email =
                  IF Text("contact_email") # <<>> THEN Field("contact_email")
                  ELSE Str(Text("email"))
            /\ data.contact_name =
                  IF Text("contact_name") # <<>> THEN Field("contact_name")
                  ELSE Str(Strip(Text("first_name") \o <<SP>> \o Text("last_name")))
            /\ data.company = Str(Text("company"))
            /\ data.close_date = Str(Text("close_date"))

\* C19 witness: a deal preview built from a field map with email and first_name
\* only has the default stage, the email as contact_email and the first name as
\* contact_name
C19_Witness_AllDefaults ==
    /\ DealBuilt
    /\ DOMAIN state.entities = {<<"email">>, <<"first_name">>}
    /\ PreviewData(state, heap).stage = W("appointmentscheduled")
    /\ PreviewData(state, heap).contact_email = W("j@x.com")
    /\ PreviewData(state, heap).contact_name = W("John")

\* ---- C20 ----
\* a create_deal run whose field map has a deal_name, an amount that is a number
\* and a contact_email, approved with the preview as it was built
ApprovedDealAsBuilt ==
    /\ state.intent = W("create_deal")
    /\ Text("deal_name") # <<>>
    /\ Numeric(Field("amount"))
    /\ Text("contact_email") # <<>>
    /\ state.user_confirmed = Bool(TRUE)
    /\ Visited("create_deal")
    /\ Dict(PreviewData(state, heap)) = _create_preview(state)

\* C20: in such a run the executor is called exactly once, with a Deal whose
\* deal_name and contact_email are the extracted values and whose amount is the
\* number the amount string denotes; when the call succeeds its result is
\* stored as deal_data and hubspot_result, and the one notification of the run
\* is the deal-created notification with the same deal name, number and
\* contact email.
C20_DealEndToEnd ==
    ApprovedDealAsBuilt =>
        /\ Len(CallsOf(ExecutorOps)) = 1
        /\ CallsOf(ExecutorOps)[1][1] = "create_deal"
        /\ CallsOf(ExecutorOps)[1][2].deal_name = Field("deal_name")
        /\ CallsOf(ExecutorOps)[1][2].amount = Num(Decimal(Text("amount")))
        /\ CallsOf(ExecutorOps)[1][2].contact_email = Field("contact_email")
        /\ IsNone(state.error) =>
              /\ ~IsNone(state.hubspot_result)
              /\ state.deal_data = state.hubspot_result
        /\ (IsNone(state.error) /\ Finished) =>
              CallsOf(NotifierOps) =
                 << <<"send_deal_created_notification",
                      <<Field("deal_name"), Num(Decimal(Text("amount"))),
                        Field("contact_email")>>>> >>

\* C20 witness: the run for "deal Big, 5000, c@x.com" was approved at the first
\* prompt, the deal was created and the notification was delivered
C20_Witness_DealCreatedAndNotified ==
    /\ pc = "done"
    /\ ApprovedDealAsBuilt
    /\ path = <<"parse_input", "create_preview", "show_preview", "create_deal",
                "send_notification">>
    /\ calls[1][2].amount = Num(5000)
    /\ calls[2] = <<"send_deal_created_notification", <<W("Big"), Num(5000), W("c@x.com")>>>>
    /\ state.email_result = Bool(TRUE)
    /\ result[2].success
    /\ result[2].data[2].hubspot_result = state.deal_data

\* ---- C21 ----
\* what the executor can return for the preview the dispatch node is given
ExecutorReturns ==
    IF pc = "create_contact"
    THEN {hubspot_create_contact(create_contact_from_preview(PreviewData(state, heap)), post)[1] :
             post \in HttpOutcomes}
    ELSE {hubspot_create_deal(create_deal_from_preview(PreviewData(state, heap)),
                              post, search, put)[1] :
             post \in HttpOutcomes, search \in SearchOutcomes, put \in HttpOutcomes}

\* the slots of a run whose dispatch succeeded: the result in the slot of the
\* intent and in hubspot_result, the slot of the other intent unset, no error
StoredInBothSlots ==
    (Visited("create_contact") \/ Visited("create_deal")) /\ IsNone(state.error) =>
        /\ ~IsNone(state.hubspot_result)
        /\ state.hubspot_result[1] = "dict"
        /\ IF Visited("create_contact")
           THEN state.contact_data = state.hubspot_result /\ IsNone(state.deal_data)
           ELSE state.deal_data = state.hubspot_result /\ IsNone(state.contact_data)

\* C21: a dispatch that succeeds stores what the executor returned, unchanged,
\* in the slot of the intent (contact_data or deal_data) and in hubspot_result;
\* from then on the two are equal, error stays None and the slot of the other
\* intent stays unset.
C21_ResultInBothSlots ==
    [][/\ (pc \in {"create_contact", "create_deal"} /\ IsNone(state'.error)) =>
             state'.hubspot_result \in ExecutorReturns
       /\ SameRun => StoredInBothSlots']_vars

\* C21 witness: a contact run has finished after a dispatch that succeeded
C21_Witness_ContactStored ==
    /\ Finished
    /\ Visited("create_contact")
    /\ IsNone(state.error)
    /\ state.contact_data = state.hubspot_result
    /\ state.hubspot_result[2].id = W("contact101")
    /\ IsNone(state.deal_data)

NoNodeTwice ==
    SameRun =>
        /\ ~(\E i \in 1..Len(path) : path[i] = pc')
        /\ pc' = pc => pc \in PreviewLoop

\* C24: every run either stays in the confirmation loop for ever (the user
\* never answers Approve or Reject) or reaches its end with workflow_completed
\* true; handle_error and send_notification lead only to END, and outside the
\* confirmation loop no node is entered twice.
C24_RunCompletes ==
    /\ (pc = "parse_input") ~> (state.workflow_completed \/ [](pc \in PreviewLoop))
    /\ [][/\ (pc \in {"handle_error", "send_notification"}) => pc' = "END"
          /\ NoNodeTwice]_vars

\* C24 witness: a run that went round the confirmation loop before the user
\* rejected has completed through handle_error
C24_Witness_CompletedAfterLoop ==
    /\ pc = "END"
    /\ state.workflow_completed
    /\ state.user_confirmed = Bool(FALSE)
    /\ path = <<"parse_input", "create_preview", "show_preview", "handle_error">>
    /\ Dict(PreviewData(state, heap)) # _create_preview(state)

\* ---- C25 ----
\* C25: a run that went through handle_error has called send_error_notification
\* exactly once, with the error message of the run as message and
\* "User input: <instruction>" as context, and is completed; this for every
\* kind of error that is routed to handle_error.
C25_ErrorNotifiedOnce ==
    Visited("handle_error") =>
        /\ IsStr(state.error)
        /\ CallsOf({"send_error_notification"}) =
              << <<"send_error_notification",
                   <<state.error, Str(<<"User", SP, "input", ":", SP>> \o state.user_input[2])>>>> >>
        /\ state.workflow_completed

\* ---- C26 ----
\* C26: once send_notification has run in a contact run, the one notifier call
\* of the run is send_contact_created_notification with the extracted email and
\* the name "first_name last_name" of the field map (spaces at the ends
\* removed), email_result holds the boolean the notifier returned, and
\* workflow_completed is true.
C26_ContactNotification ==
    (Visited("send_notification") /\ state.intent = W("create_contact")) =>
        /\ CallsOf(NotifierOps) =
              << <<"send_contact_created_notification",
                   <<Field("email"),
                     Str(Strip(Text("first_name") \o <<SP>> \o Text("last_name")))>>>> >>
        /\ state.email_result \in {Bool(TRUE), Bool(FALSE)}
        /\ state.workflow_completed

\* C26 witness: the notification for John Doe was delivered after his contact
\* had been created
C26_Witness_JohnDoeNotified ==
    /\ pc = "END"
    /\ IsNone(state.error)
    /\ calls[Len(calls)] = <<"send_contact_created_notification",
                             <<W("john@x.com"), Str(<<"John", SP, "Doe">>)>>>>
    /\ state.email_result = Bool(TRUE)
    /\ state.workflow_completed

\* ---- C27 ----
\* the run's executor call created a contact in the CRM
ContactCreated == \E i \in 1..Len(crm) : crm[i][1] = "contact"

\* C27: a create_contact run with an email that the user approved, in which the
\* executor created the contact and the notification was delivered, hands back
\* a WorkflowResult with success true, a message that contains "Contact
\* created successfully", data that holds the executor's result, and no error.
C27_ContactSuccessResult ==
    (/\ pc = "done"
     /\ state.intent = W("create_contact")
     /\ Truthy(Field("email"))
     /\ state.user_confirmed = Bool(TRUE)
     /\ ContactCreated
     /\ state.email_result = Bool(TRUE)) =>
        /\ result[2].success = TRUE
        /\ Contains(result[2].message, <<"Contact", SP, "created", SP, "successfully">>)
        /\ ~IsNone(result[2].data)
        /\ ~IsNone(result[2].data[2].hubspot_result)
        /\ result[2].data[2].hubspot_result = state.contact_data
        /\ IsNone(result[2].error)

\* C27 witness: the run for john@x.com, approved at the first prompt, came back
\* with its success message
C27_Witness_ContactRunSucceeded ==
    /\ pc = "done"
    /\ state.user_confirmed = Bool(TRUE)
    /\ ContactCreated
    /\ state.email_result = Bool(TRUE)
    /\ result[2].success
    /\ result[2].message = <<"Contact", SP, "created", SP, "successfully", SP, "for", SP,
                             "john@x.com">>

\* ---- C28 ----
\* the language-model call of the run raised
ExtractionFailed ==
    IsStr(state.error) /\ StartsWith(state.error[2], <<"Error", SP, "parsing", SP, "input">>)

\* C28: when the language-model call raised, process_request hands back a
\* WorkflowResult with success false, an error, and a message that contains
\* "Workflow execution failed".
C28_ExtractionFailureResult ==
    (pc = "done" /\ ExtractionFailed) =>
        /\ result[2].success = FALSE
        /\ ~IsNone(result[2].error)
        /\ Contains(result[2].message, <<"Workflow", SP, "execution", SP, "failed">>)

\* ---- C29 ----
\* C29: the edit operation works on a copy: while edit_preview runs, the data
\* of the PreviewItem it was given stays as it was.
C29_EditLeavesArgumentAlone ==
    [][pc = "edit_preview" =>
          heap'[state.preview_item[2].data] = heap[state.preview_item[2].data]]_vars

\* ---- C30 ----
\* the result slots of the run are all unset
NoResultStored ==
    IsNone(state.contact_data) /\ IsNone(state.deal_data) /\ IsNone(state.hubspot_result)

\* C30: when the executor call of an approved run raises, the error of the run
\* is set to a message that contains the message of the exception, and
\* contact_data, deal_data and hubspot_result stay unset to the end of the run.
C30_ExecutorFailureRecorded ==
    [][/\ (pc \in {"create_contact", "create_deal"} /\ ~IsNone(state'.error)) =>
             /\ state.user_confirmed = Bool(TRUE)
             /\ IsStr(state'.error)
             /\ \E out \in ExecutorReturns :
                   Raised(out) /\ out[2] # <<>> /\ Contains(state'.error[2], out[2])
       /\ (SameRun /\ ExecutorFailed') => NoResultStored']_vars

\* C30 witness: the deal was posted but associating it with its contact raised;
\* the run ended with the error and without a stored result
C30_Witness_DealCallRaised ==
    /\ Finished
    /\ Visited("create_deal")
    /\ state.error = Str(<<"Error", SP, "creating", SP, "deal", ":", SP>> \o RequestException)
    /\ Len(crm) = 1
    /\ NoResultStored

\* ---- C23 ----
\* a state as a new invocation must find it
FreshRunState(st) ==
    /\ IsNone(st.intent)
    /\ st.entities = EmptyDict
    /\ IsNone(st.preview_item)
    /\ IsNone(st.user_confirmed)
    /\ IsNone(st.contact_data) /\ IsNone(st.deal_data) /\ IsNone(st.hubspot_result)
    /\ IsNone(st.email_result)
    /\ IsNone(st.error)
    /\ st.workflow_completed = FALSE

\* the preview data of the parked invocation (None when it has no preview yet)
ParkedPreviewData ==
    IF IsNone(parked) \/ IsNone(parked[2].state.preview_item) THEN None
    ELSE Dict(heap[parked[2].state.preview_item[2].data])

\* the two invocations do not refer to the same preview data
PreviewsApart ==
    (~IsNone(parked) /\ ~IsNone(state.preview_item) /\ ~IsNone(parked[2].state.preview_item)) =>
        state.preview_item[2].data # parked[2].state.preview_item[2].data

\* C23: every invocation of process_request starts from a fresh state, and with
\* two invocations interleaved on one orchestrator, no step of the invocation
\* that executes changes the state or the preview data of the other one, which
\* finds them as it left them when it goes on; the two previews are different
\* objects.
C23_RunsIsolated ==
    [][/\ (runs' = runs + 1) => FreshRunState(state')
       /\ (runs' = runs /\ parked' = parked) => ParkedPreviewData' = ParkedPreviewData
       /\ (runs' = runs /\ parked' # parked) =>
             /\ Context' = parked
             /\ parked' = Context
             /\ heap' = heap
       /\ (runs' = runs + 1 /\ ~IsNone(parked')) => (parked' = Context /\ heap' = heap)
       /\ PreviewsApart']_vars

\* C23 witness: of two interleaved invocations, the one that executes has edited
\* its preview while the preview of the parked one is as it was built
C23_Witness_EditedBesideParked ==
    /\ ~IsNone(parked)
    /\ ~IsNone(state.preview_item)
    /\ ~IsNone(parked[2].state.preview_item)
    /\ parked[2].pc = "get_user_confirmation"
    /\ Dict(PreviewData(state, heap)) # _create_preview(state)
    /\ ParkedPreviewData = _create_preview(parked[2].state)
    /\ state.user_input # parked[2].state.user_input

\* ---- C31 ----
\* C31: send_email never raises: for every way the SMTP session can go it
\* returns a boolean, True exactly when connect, starttls, login and
\* send_message all went through; so the answer of the notifier that a run
\* records is a boolean.
C31_SendEmailNeverRaises ==
    /\ \A smtp \in SmtpOutcomes :
          /\ send_email(smtp) \in {Bool(TRUE), Bool(FALSE)}
          /\ send_email(smtp) = Bool(TRUE) <=> (\A step \in SmtpSteps : smtp[1] # step)
    /\ Visited("send_notification") => state.email_result \in {Bool(TRUE), Bool(FALSE)}

\* C31 witness: a run has recorded False for a notification whose SMTP session
\* failed, and has gone on to its end without an error
C31_Witness_FailureRecordedAsFalse ==
    /\ pc = "END"
    /\ path[Len(path)] = "send_notification"
    /\ state.email_result = Bool(FALSE)
    /\ IsNone(state.error)
    /\ send_email(<<"login", "Exception">>) = Bool(FALSE)

\* ---- C32 ----
\* C32: the WorkflowResult of a run has success true exactly when the user
\* approved the preview and the executor call returned a result; a run that
\* made no executor call does not come back with success true.
C32_SuccessMeansDispatched ==
    pc = "done" =>
        /\ result[2].success <=>
              (state.user_confirmed = Bool(TRUE) /\ ~IsNone(state.hubspot_result))
        /\ result[2].success => Len(CallsOf(ExecutorOps)) = 1

\* ---- C33 ----
\* an edit prompt is answered with a line
PromptAnswered == pc = "edit_preview" /\ typed'[1] = "str"

\* the answer changes no field but the one it was asked for
OtherFieldsKept ==
    PromptAnswered =>
        \A f \in (DOMAIN PreviewData(state, heap)) \ {PromptedField} :
            PreviewData(state', heap')[f] = PreviewData(state, heap)[f]

\* between the prompts of the edit cycles nothing changes the preview data
DataKeptOutsideEdit ==
    (SameRun /\ pc # "edit_preview" /\ ~IsNone(state.preview_item)) =>
        PreviewData(state', heap') = PreviewData(state, heap)

\* the executor is handed the fields as the last cycle left them
DispatchedAsLeft ==
    (pc \in {"create_contact", "create_deal"}) =>
        /\ Len(calls') = Len(calls) + 1
        /\ calls'[Len(calls')][1] = pc
        /\ \A f \in DOMAIN calls'[Len(calls')][2] :
              calls'[Len(calls')][2][f] = PreviewData(state, heap)[f]

\* the value a non-empty answer supplies: a number for an amount that is one,
\* else the text without the spaces at its ends
SuppliedValue(field, raw) ==
    LET number == Float(Remove(Remove(Strip(raw), "$"), ","))
    IN  IF field = "amount" /\ number # ValueError THEN number ELSE Str(Strip(raw))

\* C33 as stated: edits accumulate over the edit cycles: every answer works on
\* the values the earlier answers left, a non-empty answer replaces its field by
\* the value supplied and an empty one leaves it, nothing outside the prompts
\* changes the data, and the executor is handed the data as the last cycle left
\* it; so every field dispatched is the last non-empty value supplied, or the
\* built value.
C33_LastSuppliedDispatched ==
    [][/\ OtherFieldsKept
       /\ PromptAnswered =>
             PreviewData(state', heap')[PromptedField] =
                IF Strip(typed'[2]) = <<>> THEN PreviewData(state, heap)[PromptedField]
                ELSE SuppliedValue(PromptedField, typed'[2])
       /\ DataKeptOutsideEdit
       /\ DispatchedAsLeft]_vars

\* C33 amended: as above, but for the amount only an answer that is a number
\* counts: any other answer to the amount prompt leaves the amount of the
\* earlier cycles; so every field dispatched is the last value accepted in any
\* cycle, or the built value.
C33_LastAcceptedDispatched ==
    [][/\ OtherFieldsKept
       /\ PromptAnswered =>
             PreviewData(state', heap')[PromptedField] =
                IF Strip(typed'[2]) = <<>>
                   \/ (PromptedField = "amount" /\ SuppliedValue("amount", typed'[2])[1] = "str")
                THEN PreviewData(state, heap)[PromptedField]
                ELSE SuppliedValue(PromptedField, typed'[2])
       /\ DataKeptOutsideEdit
       /\ DispatchedAsLeft]_vars

\* C33 witness: a later edit cycle is about to ask its first question and the
\* preview holds what an earlier cycle left
C33_Witness_SecondCycleStarts ==
    /\ pc = "edit_preview"
    /\ edit_pos = 1
    /\ typed = Str(<<"edit">>)
    /\ Dict(PreviewData(state, heap)) # _create_preview(state)

\* ---- C34 ----
\* C34: in every successful run whose executor was called, what the human is
\* told equals what the executor was handed: the email of the contact-created
\* notification and of the result message is the email of the Contact, and the
\* deal name, amount and contact email of the deal-created notification and the
\* deal name of the result message are those of the Deal, edited or not.
C34_ReportedAsDispatched ==
    (pc = "done" /\ result[2].success /\ Len(CallsOf(ExecutorOps)) = 1) =>
        LET handed   == CallsOf(ExecutorOps)[1][2]
            notified == calls[Len(calls)]
        IN  IF state.intent = W("create_contact")
            THEN /\ notified[1] = "send_contact_created_notification"
                 /\ notified[2][1] = handed.email
                 /\ result[2].message =
                       <<"Contact", SP, "created", SP, "successfully", SP, "for", SP>>
                           \o Fmt(handed.email)
            ELSE /\ notified[1] = "send_deal_created_notification"
                 /\ notified[2] = <<handed.deal_name, handed.amount, handed.contact_email>>
                 /\ result[2].message =
                       <<"Deal", SP, "created", SP, "successfully", ":", SP>>
                           \o Fmt(handed.deal_name)

\* ---- C35 ----
\* a name that is not empty, and not made of spaces only
NotBlank(v) == IsStr(v) /\ Strip(v[2]) # <<>>

\* C35: in a deal run, whatever the field map, the deal_name of the preview is
\* not blank from the moment the preview is built and through the edit cycles,
\* and the Deal handed to the executor has a name that is not blank.
C35_DealNameNeverBlank ==
    /\ (state.intent = W("create_deal") /\ Truthy(state.preview_item)) =>
           NotBlank(PreviewData(state, heap).deal_name)
    /\ \A i \in 1..Len(calls) :
           calls[i][1] = "create_deal" => NotBlank(calls[i][2].deal_name)

\* C35 witness: the field map is empty, the preview was built with the name
\* "Deal with   from", and in an edit cycle the deal name prompt was answered
\* with a space only
C35_Witness_EmptyMapBlankEdit ==
    /\ pc = "edit_preview"
    /\ edit_pos = 2
    /\ typed = Str(<<SP>>)
    /\ DOMAIN state.entities = {}
    /\ PreviewData(state, heap).deal_name = Str(<<"Deal", SP, "with", SP, SP, SP, "from">>)

\* ---- C36 ----
\* C36: deal creation is all or nothing: a run whose create_deal call raised
\* (the error "Error creating deal" is set, deal_data and hubspot_result are
\* left unset) created no deal in the CRM, a failure of the contact search or of
\* the association after the POST included.
C36_FailedDealLeavesNoDeal ==
    (/\ Visited("create_deal")
     /\ IsStr(state.error)
     /\ StartsWith(state.error[2], <<"Error", SP, "creating", SP, "deal">>)) =>
        /\ IsNone(state.deal_data)
        /\ IsNone(state.hubspot_result)
        /\ \A i \in 1..Len(crm) : crm[i][1] # "deal"

\* ---- C37 ----
\* C37: the human decides on what was shown: whenever a decision is asked for,
\* the first time and after every edit cycle, the last display showed the
\* preview as it is at that moment, and what an approved run hands to the
\* executor are the values of that display.
C37_DecidesOnWhatWasShown ==
    /\ pc = "get_user_confirmation" =>
           shown = display_preview(state.preview_item[2], heap)
    /\ (pc \in {"create_contact", "create_deal"} /\ state.user_confirmed = Bool(TRUE)) =>
           shown = display_preview(state.preview_item[2], heap)
    /\ \A i \in 1..Len(calls) :
           calls[i][1] \in ExecutorOps =>
               \A f \in DOMAIN calls[i][2] : calls[i][2][f] = shown[2].data[f]

\* C37 witness: an edit cycle has changed the preview, and the next decision is
\* asked for with the changed preview on display
C37_Witness_EditedPreviewShown ==
    /\ pc = "get_user_confirmation"
    /\ edit_pos = 0
    /\ typed \in {Str(l) : l \in TextLines}
    /\ Dict(shown[2].data) # _create_preview(state)
    /\ shown[2].data = PreviewData(state, heap)

\* ---- C38 ----
\* in the confirmation loop one more edit is always possible: the prompt takes
\* the answer 'edit', and every edit prompt takes a line and stays in the loop
LoopKeepsGoing ==
    /\ pc = "get_user_confirmation" => ENABLED (GetUserConfirmation /\ pc' = "edit_preview")
    /\ pc = "edit_preview" => ENABLED (EditPreview /\ pc' \in PreviewLoop)

\* the user answers the prompt "Do you want to create this?" with Approve
Approves ==
    pc = "get_user_confirmation" /\ ~Raised(typed') /\ Confirmation(typed'[2]) = Bool(TRUE)

\* C38: the confirmation loop has no bound on edit cycles: inside the loop one
\* more edit cycle can always be started and gone through; a step that stays in
\* the loop sets no error, decides nothing and counts nothing; Approve is
\* accepted after any number of cycles and goes to dispatch; and the loop is
\* left only on an answer Approve or Reject or on an exception of a prompt,
\* so a user who only edits stays in it for ever.
C38_NoBoundOnEdits ==
    /\ []LoopKeepsGoing
    /\ [][/\ (pc \in PreviewLoop /\ pc' \in PreviewLoop) =>
                /\ IsNone(state'.error)
                /\ IsNone(state'.user_confirmed)
                /\ UNCHANGED <<path, calls, runs>>
          /\ Approves =>
                /\ pc' \in {"create_contact", "create_deal"}
                /\ IsNone(state'.error)
          /\ (LeavesPreviewLoop /\ ~Raised(typed')) =>
                /\ pc = "get_user_confirmation"
                /\ Confirmation(typed'[2]) \in {Bool(TRUE), Bool(FALSE)}]_vars

\* C38 witness: Approve was accepted after the edit cycles had changed the
\* preview, and the run is at the executor node without an error
C38_Witness_ApprovedAfterEdits ==
    /\ pc \in {"create_contact", "create_deal"}
    /\ typed = Str(<<"y">>)
    /\ IsNone(state.error)
    /\ Dict(PreviewData(state, heap)) # _create_preview(state)

\* ---- C39 ----
\* the items of "k1:v1, k2:v2, ...": the pieces between the separators ", "
RECURSIVE Items(_)
Items(s) ==
    LET seps == {i \in 1..(Len(s) - 1) : s[i] = "," /\ s[i + 1] = SP}
        first == CHOOSE i \in seps : \A j \in seps : i <= j
    IN  IF seps = {} THEN <<s>>
        ELSE <<SubSeq(s, 1, first - 1)>> \o Items(SubSeq(s, first + 2, Len(s)))

\* what follows the given label on the line of the text that starts with it,
\* None when no line does
LineOf(text, label) ==
    LET lines == Split(Strip(text), NL)
        found == {i \in 1..Len(lines) : StartsWith(lines[i], <<label, ":">>)}
    IN  IF found = {} THEN None
        ELSE Str(Strip(SubSeq(lines[CHOOSE i \in found : TRUE], 3, Len(lines[CHOOSE i \in found : TRUE]))))

\* the key/value pairs an ENTITIES line lists
ListedPairs(text) ==
    LET items == IF IsNone(LineOf(text, "ENTITIES")) THEN <<>>
                 ELSE Items(LineOf(text, "ENTITIES")[2])
    IN  {<<Strip(Split1(items[i], ":")[1]), Str(Strip(Split1(items[i], ":")[2]))>> :
            i \in {j \in 1..Len(items) : Has(items[j], ":")}}

\* C39: after parse_input has read a reply of the language model, the intent of
\* the run is the intent the INTENT line states ('unknown' when no line starts
\* with INTENT:), and the field map holds exactly the key/value pairs the
\* ENTITIES line lists.
C39_ParsedAsListed ==
    IsStr(reply) =>
        /\ state.intent =
              IF IsNone(LineOf(reply[2], "INTENT")) THEN W("unknown")
              ELSE LineOf(reply[2], "INTENT")
        /\ {<<k, state.entities[k]>> : k \in DOMAIN state.entities} = ListedPairs(reply[2])

====
